---- MODULE Spec2Model ----
(***************************************************************************)
(* Find_files.py: locate contamination tables under a directory, check     *)
(* that every sample has the three file types, write the path lists and    *)
(* optionally mirror the files as symbolic links.                          *)
(*                                                                         *)
(* Python strings are sequences of one-character strings, so that          *)
(* str.replace, the `in` test, fnmatch, sorted() and the line structure of *)
(* the written files are computed character by character.                  *)
(***************************************************************************)
EXTENDS Integers, Sequences, FiniteSets, TLC

(***************************************************************************)
(* Bounds                                                                  *)
(***************************************************************************)
\* largest number of files present under /w/d in an initial file system
MaxFiles == 3
\* number of times the script is invoked on the same file system
MaxRuns == 2

(***************************************************************************)
(* Characters and string primitives                                        *)
(***************************************************************************)
\* the characters that occur, in code-point order
Alphabet ==
  <<"\n"," ","#",".","/","0","1",
    "A","B","C","D","E","F","G","H","I","J","K","L","M",
    "N","O","P","Q","R","S","T","U","V","W","X","Y","Z","_",
    "a","b","c","d","e","f","g","h","i","j","k","l","m",
    "n","o","p","q","r","s","t","u","v","w","x","y","z">>

\* ord(): the rank of a character
OrdMap == [c \in {Alphabet[i] : i \in DOMAIN Alphabet} |-> CHOOSE i \in DOMAIN Alphabet : Alphabet[i] = c]

Ord(c) == OrdMap[c]

\* str < str : first differing code point, a proper prefix is smaller
RECURSIVE StrLess(_, _)
StrLess(a, b) ==
  IF b = <<>> THEN FALSE
  ELSE IF a = <<>> THEN TRUE
  ELSE IF a[1] = b[1] THEN StrLess(Tail(a), Tail(b))
  ELSE Ord(a[1]) < Ord(b[1])

\* s[i:] with i counted from 1
Drop(s, n) == SubSeq(s, n + 1, Len(s))

StartsWith(s, p) == Len(p) <= Len(s) /\ SubSeq(s, 1, Len(p)) = p

EndsWith(s, p) == Len(p) <= Len(s) /\ SubSeq(s, Len(s) - Len(p) + 1, Len(s)) = p

\* sub in s
Contains(sub, s) == \E i \in 0..(Len(s) - Len(sub)) : SubSeq(s, i + 1, i + Len(sub)) = sub

\* s.replace(old, new) for a non-empty old: every occurrence, left to right,
\* without overlap
RECURSIVE Replace(_, _, _)
Replace(s, old, new) ==
  IF Len(s) < Len(old) THEN s
  ELSE IF StartsWith(s, old) THEN new \o Replace(Drop(s, Len(old)), old, new)
  ELSE <<s[1]>> \o Replace(Tail(s), old, new)

\* str.upper() on the characters that occur in the category names
UpperMap ==
  [c \in {Alphabet[i] : i \in DOMAIN Alphabet} |->
     IF OrdMap[c] >= OrdMap["a"] /\ OrdMap[c] <= OrdMap["z"]
     THEN Alphabet[OrdMap[c] - OrdMap["a"] + OrdMap["A"]] ELSE c]

Upper(s) == [i \in 1..Len(s) |-> UpperMap[s[i]]]

\* fnmatch of a name against a pattern made of literal characters and "*"
RECURSIVE FnMatch(_, _)
FnMatch(name, pat) ==
  IF pat = <<>> THEN name = <<>>
  ELSE IF pat[1] = "*"
       THEN FnMatch(name, Tail(pat)) \/ (name # <<>> /\ FnMatch(Tail(name), pat))
       ELSE name # <<>> /\ name[1] = pat[1] /\ FnMatch(Tail(name), Tail(pat))

\* the lines of a text file: the pieces between "\n", the last "\n" ends the
\* last line
RECURSIVE SplitLines(_, _, _)
SplitLines(text, start, i) ==
  IF i > Len(text) THEN (IF start > Len(text) THEN <<>> ELSE <<SubSeq(text, start, Len(text))>>)
  ELSE IF text[i] = "\n" THEN <<SubSeq(text, start, i - 1)>> \o SplitLines(text, i + 1, i + 1)
  ELSE SplitLines(text, start, i + 1)

Lines(text) == SplitLines(text, 1, 1)

(***************************************************************************)
(* Paths                                                                   *)
(***************************************************************************)
\* the working directory of the process
cwd == <<"/","w">>

RECURSIVE LastSlash(_, _)
LastSlash(p, i) == IF i = 0 THEN 0 ELSE IF p[i] = "/" THEN i ELSE LastSlash(p, i - 1)

\* os.path.basename, os.path.dirname
basename(p) == Drop(p, LastSlash(p, Len(p)))

dirname(p) ==
  LET i == LastSlash(p, Len(p)) IN IF i <= 1 THEN SubSeq(p, 1, i) ELSE SubSeq(p, 1, i - 1)

\* os.path.join of two components
join(a, b) ==
  IF StartsWith(b, <<"/">>) THEN b
  ELSE IF a = <<>> \/ EndsWith(a, <<"/">>) THEN a \o b
  ELSE a \o <<"/">> \o b

\* the components of a path between "/"
RECURSIVE ComponentsFrom(_, _, _)
ComponentsFrom(p, start, i) ==
  IF i > Len(p) THEN <<SubSeq(p, start, Len(p))>>
  ELSE IF p[i] = "/" THEN <<SubSeq(p, start, i - 1)>> \o ComponentsFrom(p, i + 1, i + 1)
  ELSE ComponentsFrom(p, start, i + 1)

Components(p) == ComponentsFrom(p, 1, 1)

\* os.path.normpath of an absolute path: "", "." dropped, ".." pops
RECURSIVE NormComps(_, _)
NormComps(comps, acc) ==
  IF comps = <<>> THEN acc
  ELSE LET c == comps[1] IN
       IF c = <<>> \/ c = <<".">> THEN NormComps(Tail(comps), acc)
       ELSE IF c = <<".", ".">>
            THEN NormComps(Tail(comps), IF acc = <<>> THEN acc ELSE SubSeq(acc, 1, Len(acc) - 1))
            ELSE NormComps(Tail(comps), Append(acc, c))

RECURSIVE JoinComps(_)
JoinComps(comps) == IF comps = <<>> THEN <<>> ELSE <<"/">> \o comps[1] \o JoinComps(Tail(comps))

normpath(p) ==
  LET cs == NormComps(Components(p), <<>>) IN IF cs = <<>> THEN <<"/">> ELSE JoinComps(cs)

\* os.path.abspath
abspath(p) == IF StartsWith(p, <<"/">>) THEN normpath(p) ELSE normpath(join(cwd, p))

\* sorted() left out: the list stays in the order glob produced
sorted_unsorted(s) == s

\* sorted(): ascending, by insertion
RECURSIVE Insert(_, _)
Insert(x, s) ==
  IF s = <<>> THEN <<x>>
  ELSE IF StrLess(x, s[1]) THEN <<x>> \o s
  ELSE <<s[1]>> \o Insert(x, Tail(s))

RECURSIVE sorted(_)
sorted(s) == IF s = <<>> THEN <<>> ELSE Insert(s[1], sorted(Tail(s)))

\* the orders in which a set can be enumerated
Perms(S) == {s \in [1..Cardinality(S) -> S] : \A i, j \in DOMAIN s : i # j => s[i] # s[j]}

(***************************************************************************)
(* The three categories                                                    *)
(***************************************************************************)
\* the keys of the dictionary `patterns`, in insertion order
file_types == <<"getpileupsummaries", "calculatecontamination", "segments">>

FileTypes == {file_types[i] : i \in DOMAIN file_types}

\* the text of a category name
TypeChars(t) ==
  CASE t = "getpileupsummaries" -> <<"g","e","t","p","i","l","e","u","p","s","u","m","m","a","r","i","e","s">>
    [] t = "calculatecontamination" -> <<"c","a","l","c","u","l","a","t","e","c","o","n","t","a","m","i","n","a","t","i","o","n">>
    [] t = "segments" -> <<"s","e","g","m","e","n","t","s">>

\* patterns[file_type]
patterns(t) == <<"*", "_">> \o TypeChars(t) \o <<".","t","a","b","l","e">>

\* the literal each branch of the consistency check removes from a file name
Suffix(t) == <<"_">> \o TypeChars(t) \o <<".","t","a","b","l","e">>

(***************************************************************************)
(* The file system: absolute path |-> entry                                *)
(***************************************************************************)
File(text) == [kind |-> "file", data |-> text]
Link(to) == [kind |-> "link", data |-> to]
Dir == [kind |-> "dir", data |-> <<>>]

lexists(f, p) == p \in DOMAIN f

\* os.path.exists: os.stat succeeds, symbolic links are followed
RECURSIVE Follow(_, _, _)
Follow(f, p, fuel) ==
  IF p \notin DOMAIN f THEN FALSE
  ELSE IF f[p].kind # "link" THEN TRUE
  ELSE IF fuel = 0 THEN FALSE
  ELSE Follow(f, normpath(join(dirname(p), f[p].data)), fuel - 1)

exists(f, p) == Follow(f, abspath(p), Cardinality(DOMAIN f))

isdir(f, p) == lexists(f, p) /\ f[p].kind = "dir"

Put(f, p, e) == [q \in DOMAIN f \cup {p} |-> IF q = p THEN e ELSE f[q]]

Remove(f, p) == [q \in DOMAIN f \ {p} |-> f[q]]

\* the proper ancestors of an absolute path
Ancestors(p) == {<<"/">>} \cup {SubSeq(p, 1, i - 1) : i \in {j \in 2..Len(p) : p[j] = "/"}}

\* os.makedirs(p, exist_ok=True) when it succeeds
makedirs(f, p) ==
  [q \in DOMAIN f \cup Ancestors(p) \cup {p} |-> IF q \in DOMAIN f THEN f[q] ELSE Dir]

\* the names glob does not match with a pattern that starts with "*"
Hidden(rel) == \E i \in DOMAIN Components(rel) : StartsWith(Components(rel)[i], <<".">>)

\* the search directory left out of the pattern: the working directory is searched
glob_cwd(f, dir, pattern) ==
  LET prefix == cwd \o <<"/">>
      below == {q \in DOMAIN f : StartsWith(q, prefix) /\ q # prefix}
      rel(q) == Drop(q, Len(prefix))
  IN {rel(q) : q \in {r \in below : ~Hidden(rel(r)) /\ FnMatch(basename(r), pattern)}}

\* glob.glob(os.path.join(dir, "**", pattern), recursive=True) as a set: the
\* entries at any depth below dir whose name matches the pattern
glob(f, dir, pattern) ==
  LET root == abspath(dir)
      prefix == IF root = <<"/">> THEN root ELSE root \o <<"/">>
      below == {q \in DOMAIN f : StartsWith(q, prefix) /\ q # prefix /\ isdir(f, root)}
      rel(q) == Drop(q, Len(prefix))
  IN {join(dir, rel(q)) : q \in {r \in below : ~Hidden(rel(r)) /\ FnMatch(basename(r), pattern)}}

(***************************************************************************)
(* Initial file systems and command lines                                  *)
(***************************************************************************)
\* files that may lie below /w/d
Candidates ==
  { <<"/","w","/","d","/","S","1","_","g","e","t","p","i","l","e","u","p","s","u","m","m","a","r","i","e","s",".","t","a","b","l","e">>,
    <<"/","w","/","d","/","S","1","0","_","c","a","l","c","u","l","a","t","e","c","o","n","t","a","m","i","n","a","t","i","o","n",".","t","a","b","l","e">>,
    <<"/","w","/","d","/","a","/","S","1","_","s","e","g","m","e","n","t","s",".","t","a","b","l","e">>,
    <<"/","w","/","d","/","b","/","S","1","_","s","e","g","m","e","n","t","s",".","t","a","b","l","e">>,
    <<"/","w","/","d","/","A","_","s","e","g","m","e","n","t","s",".","t","a","b","l","e","B","_","s","e","g","m","e","n","t","s",".","t","a","b","l","e">>,
    <<"/","w","/","d","/","_","s","e","g","m","e","n","t","s",".","t","a","b","l","e">>,
    <<"/","w","/","d","/",".","h","/","S","1","_","s","e","g","m","e","n","t","s",".","t","a","b","l","e">> }

\* the search directory argument, relative to the working directory
Directories == {<<"d">>}

\* -o / --output : absent or given
Outputs == {<<>>, <<"o",".","t","x","t">>}

\* --symlink-dir : absent or given
SymlinkDirs == {<<>>, <<"l">>}

\* the entry that an earlier run may have left in the target directory, and
\* the file it may point to
PreLink == <<"/","w","/","l","/","S","1","_","s","e","g","m","e","n","t","s",".","t","a","b","l","e">>
OldFile == <<"/","w","/","o","l","d","/","S","1","_","s","e","g","m","e","n","t","s",".","t","a","b","l","e">>

\* what the target directory holds before the run
TargetStates == {"absent", "notdir", "empty", "file", "dir", "link", "dangling"}

TargetEntries(ts) ==
  CASE ts = "absent" -> {}
    [] ts = "notdir" -> {<<<<"/","w","/","l">>, File(<<>>)>>}
    [] ts = "empty" -> {<<<<"/","w","/","l">>, Dir>>}
    [] ts = "dir" -> {<<<<"/","w","/","l">>, Dir>>, <<PreLink, Dir>>}
    [] ts = "file" -> {<<<<"/","w","/","l">>, Dir>>, <<PreLink, File(<<>>)>>}
    [] ts = "link" -> {<<<<"/","w","/","l">>, Dir>>, <<PreLink, Link(OldFile)>>, <<OldFile, File(<<>>)>>}
    [] ts = "dangling" -> {<<<<"/","w","/","l">>, Dir>>, <<PreLink, Link(OldFile)>>}

\* the file system holding the files, the target directory in state ts and,
\* where there, the search directory
InitFs(files, ts, there) ==
  LET given == {<<p, File(<<>>)>> : p \in files} \cup TargetEntries(ts)
            \cup {<<cwd, Dir>>}
            \cup (IF there THEN {<<<<"/","w","/","d">>, Dir>>} ELSE {})
      paths == {e[1] : e \in given}
      all == paths \cup UNION {Ancestors(p) : p \in paths}
  IN [p \in all |-> IF p \in paths THEN (CHOOSE e \in given : e[1] = p)[2] ELSE Dir]

(***************************************************************************)
(* Pure parts of find_contamination_files and save_results                 *)
(***************************************************************************)
\* the sample name the consistency check derives from a file name
sample_of(filename, file_type) == Replace(filename, Suffix(file_type), <<>>)

\* the set `samples` of one category
samples_of(res, file_type) ==
  {sample_of(basename(res[file_type][i]), file_type) : i \in DOMAIN res[file_type]}

\* the flag `found` of the missing-file loop
found(res, sample, file_type) ==
  \E i \in DOMAIN res[file_type] : Contains(sample, basename(res[file_type][i]))

\* missing_files[sample]: the categories without a match, in dictionary order
missing_of(res, sample) ==
  SelectSeq(file_types, LAMBDA t : ~found(res, sample, t))

\* base_name of save_results
base_name_of(out) == Replace(Replace(out, <<".","t","x","t">>, <<>>), <<".","j","s","o","n">>, <<>>)

paths_only_file(out, file_type) ==
  base_name_of(out) \o <<"_">> \o TypeChars(file_type) \o <<"_","p","a","t","h","s",".","t","x","t">>

all_paths_file(out) == base_name_of(out) \o <<"_","a","l","l","_","p","a","t","h","s",".","t","x","t">>

\* the text written by: for file_path in files: f.write(f"{file_path}\n")
RECURSIVE path_lines(_)
path_lines(files) ==
  IF files = <<>> THEN <<>> ELSE files[1] \o <<"\n">> \o path_lines(Tail(files))

\* the blank separator line left out
section_no_separator(res, file_type) ==
  <<"#", " ">> \o Upper(TypeChars(file_type)) \o <<" ","F","I","L","E","S","\n">>
    \o path_lines(res[file_type])

\* the text written per category into the combined file
section(res, file_type) ==
  <<"#", " ">> \o Upper(TypeChars(file_type)) \o <<" ","F","I","L","E","S","\n">>
    \o path_lines(res[file_type]) \o <<"\n">>

all_text(res) ==
  <<"#"," ","A","l","l"," ","c","o","n","t","a","m","i","n","a","t","i","o","n"," ","f","i","l","e","s","\n">>
    \o section(res, file_types[1]) \o section(res, file_types[2]) \o section(res, file_types[3])

\* the files in the order the mirror loop visits them
all_files(res) == res[file_types[1]] \o res[file_types[2]] \o res[file_types[3]]

(***************************************************************************)
(* State                                                                   *)
(***************************************************************************)
VARIABLES
  fs,                 \* the file system
  search_directory,   \* args.directory
  output_file,        \* args.output, <<>> when not given
  symlink_dir,        \* args.symlink_dir, <<>> when not given
  pc,                 \* position of the run
  results,            \* file type |-> sorted paths, for the types located so far
  all_samples,        \* the set all_samples
  incomplete_samples, \* sample |-> missing file types, for the incomplete ones
  saved,              \* number of output files written by save_results
  mirrored,           \* number of files the mirror loop has handled
  err,                \* the exception that ended the run, "none" otherwise
  run,                \* number of the current invocation
  fs0,                \* the file system when the current invocation started
  prev_results        \* what the previous invocation returned

vars == <<fs, search_directory, output_file, symlink_dir, pc, results, all_samples,
          incomplete_samples, saved, mirrored, err, run, fs0, prev_results>>

args == <<search_directory, output_file, symlink_dir>>

NoResults == [t \in {} |-> <<>>]

Init ==
  /\ search_directory \in Directories
  /\ output_file \in Outputs
  /\ symlink_dir \in SymlinkDirs
  /\ \E files \in SUBSET Candidates, ts \in TargetStates, there \in BOOLEAN :
       /\ Cardinality(files) <= MaxFiles
       \* a search directory that does not exist holds no file
       /\ files # {} => there
       \* without --symlink-dir the run never looks at the target directory
       /\ symlink_dir = <<>> => ts \in {"absent", "link"}
       /\ fs = InitFs(files, ts, there)
  /\ pc = "locate"
  /\ results = NoResults
  /\ all_samples = {}
  /\ incomplete_samples = NoResults
  /\ saved = 0
  /\ mirrored = 0
  /\ err = "none"
  /\ run = 1
  /\ fs0 = fs
  /\ prev_results = NoResults

\* the links made before the path lists are written
AfterReport_links_first ==
  IF symlink_dir # <<>> THEN "makedirs" ELSE IF output_file # <<>> THEN "save" ELSE "done"

\* the path lists written whether -o was given or not
AfterReport_always_save == "save"

\* where the run goes after the report: save_results when -o was given
AfterReport == IF output_file # <<>> THEN "save" ELSE IF symlink_dir # <<>> THEN "makedirs" ELSE "done"

\* where the run goes when find_contamination_files has returned
AfterSave == IF symlink_dir # <<>> THEN "makedirs" ELSE "done"

(***************************************************************************)
(* find_contamination_files                                                *)
(***************************************************************************)
\* one pass of the search loop: glob in some order, keep the sorted list
Locate ==
  /\ pc = "locate"
  /\ LET file_type == file_types[Cardinality(DOMAIN results) + 1]
         matches == glob(fs, search_directory, patterns(file_type))
     IN \E found_files \in Perms(matches) :
          results' = [t \in DOMAIN results \cup {file_type} |->
                        IF t = file_type THEN sorted(found_files) ELSE results[t]]
  /\ pc' = IF Cardinality(DOMAIN results) + 1 = Len(file_types) THEN "check" ELSE "locate"
  /\ UNCHANGED <<fs, args, all_samples, incomplete_samples, saved, mirrored, err, run, fs0,
                 prev_results>>

\* the summary and the sample consistency check
Check ==
  /\ pc = "check"
  /\ all_samples' = UNION {samples_of(results, t) : t \in FileTypes}
  /\ pc' = "missing"
  /\ UNCHANGED <<fs, args, results, incomplete_samples, saved, mirrored, err, run, fs0,
                 prev_results>>

\* the missing-file check and its report
Missing ==
  /\ pc = "missing"
  /\ LET missing_files == [s \in all_samples |-> missing_of(results, s)]
     IN incomplete_samples' = [s \in {k \in all_samples : missing_files[k] # <<>>} |->
                                 missing_files[s]]
  /\ pc' = AfterReport
  /\ UNCHANGED <<fs, args, results, all_samples, saved, mirrored, err, run, fs0, prev_results>>

(***************************************************************************)
(* save_results                                                            *)
(***************************************************************************)
\* open(path, 'w') finds the directory of path and no directory at path
CanOpen(f, path) == isdir(f, dirname(path)) /\ ~isdir(f, path)

\* one per-category path file
SavePaths ==
  /\ pc = "save"
  /\ saved < Len(file_types)
  /\ LET file_type == file_types[saved + 1]
         path == abspath(paths_only_file(output_file, file_type))
     IN \/ /\ CanOpen(fs, path)
           /\ fs' = Put(fs, path, File(path_lines(results[file_type])))
           /\ saved' = saved + 1
           /\ UNCHANGED <<pc, err>>
        \/ /\ pc' = "failed"
           /\ err' = "OSError"
           /\ UNCHANGED <<fs, saved>>
  /\ UNCHANGED <<args, results, all_samples, incomplete_samples, mirrored, run, fs0, prev_results>>

\* the combined file, then the return to the main part
SaveAll ==
  /\ pc = "save"
  /\ saved = Len(file_types)
  /\ LET path == abspath(all_paths_file(output_file))
     IN \/ /\ CanOpen(fs, path)
           /\ fs' = Put(fs, path, File(all_text(results)))
           /\ saved' = saved + 1
           /\ pc' = AfterSave
           /\ UNCHANGED err
        \/ /\ pc' = "failed"
           /\ err' = "OSError"
           /\ UNCHANGED <<fs, saved>>
  /\ UNCHANGED <<args, results, all_samples, incomplete_samples, mirrored, run, fs0,
                 prev_results>>

(***************************************************************************)
(* create_file_symlinks                                                    *)
(***************************************************************************)
MakeDirs ==
  /\ pc = "makedirs"
  /\ LET target == abspath(symlink_dir)
     IN \/ /\ ~lexists(fs, target) \/ isdir(fs, target)
           /\ fs' = makedirs(fs, target)
           /\ pc' = IF all_files(results) = <<>> THEN "done" ELSE "mirror"
           /\ UNCHANGED err
        \/ /\ lexists(fs, target) /\ ~isdir(fs, target)
           /\ pc' = "failed"
           /\ err' = "FileExistsError"
           /\ UNCHANGED fs
        \/ /\ ~lexists(fs, target)
           /\ pc' = "failed"
           /\ err' = "OSError"
           /\ UNCHANGED fs
  /\ UNCHANGED <<args, results, all_samples, incomplete_samples, saved, mirrored, run, fs0,
                 prev_results>>

\* the destination of a discovered file
symlink_path_of(file_path) == abspath(join(symlink_dir, basename(file_path)))

\* the link made to the path as found, not to its absolute path
link_target_as_found(file_path) == file_path

\* what the new link points to
link_target(file_path) == abspath(file_path)

\* the file system after `if os.path.exists(symlink_path): os.remove(symlink_path)`
AfterRemove(f, symlink_path) == IF exists(f, symlink_path) THEN Remove(f, symlink_path) ELSE f

\* one pass of the inner loop
Mirror ==
  /\ pc = "mirror"
  /\ LET file_path == all_files(results)[mirrored + 1]
         symlink_path == symlink_path_of(file_path)
         cleared == AfterRemove(fs, symlink_path)
         last == mirrored + 1 = Len(all_files(results))
     IN \/ \* os.remove on a directory
           /\ exists(fs, symlink_path) /\ isdir(fs, symlink_path)
           /\ pc' = "failed" /\ err' = "IsADirectoryError"
           /\ UNCHANGED <<fs, mirrored>>
        \/ \* os.remove refused
           /\ exists(fs, symlink_path) /\ ~isdir(fs, symlink_path)
           /\ pc' = "failed" /\ err' = "OSError"
           /\ UNCHANGED <<fs, mirrored>>
        \/ \* os.symlink finds an entry at the destination
           /\ ~(exists(fs, symlink_path) /\ isdir(fs, symlink_path))
           /\ lexists(cleared, symlink_path)
           /\ pc' = "failed" /\ err' = "FileExistsError"
           /\ fs' = cleared
           /\ UNCHANGED mirrored
        \/ \* os.symlink refused
           /\ ~(exists(fs, symlink_path) /\ isdir(fs, symlink_path))
           /\ ~lexists(cleared, symlink_path)
           /\ pc' = "failed" /\ err' = "OSError"
           /\ fs' = cleared
           /\ UNCHANGED mirrored
        \/ /\ ~(exists(fs, symlink_path) /\ isdir(fs, symlink_path))
           /\ ~lexists(cleared, symlink_path)
           /\ fs' = Put(cleared, symlink_path, Link(link_target(file_path)))
           /\ mirrored' = mirrored + 1
           /\ pc' = IF last THEN "done" ELSE "mirror"
           /\ UNCHANGED err
  /\ UNCHANGED <<args, results, all_samples, incomplete_samples, saved, run, fs0, prev_results>>

(***************************************************************************)
(* The script is started again with the same command line                  *)
(***************************************************************************)
Rerun ==
  /\ pc = "done"
  /\ run < MaxRuns
  /\ run' = run + 1
  /\ prev_results' = results
  /\ fs0' = fs
  /\ pc' = "locate"
  /\ results' = NoResults
  /\ all_samples' = {}
  /\ incomplete_samples' = NoResults
  /\ saved' = 0
  /\ mirrored' = 0
  /\ UNCHANGED <<fs, args, err>>

Next == Locate \/ Check \/ Missing \/ SavePaths \/ SaveAll \/ MakeDirs \/ Mirror \/ Rerun

Spec == Init /\ [][Next]_vars

(***************************************************************************)
(* Properties                                                              *)
(***************************************************************************)
InSeq(e, seq) == \E i \in DOMAIN seq : seq[i] = e

\* the three categories have been located
Located == DOMAIN results = FileTypes

\* the consistency check has run
Checked == pc \notin {"locate", "check"}

\* the completeness report of this run has been produced
Reported == pc \notin {"locate", "check", "missing"}

\* sample s is reported with category t listed
ReportedMissing(s, t) == s \in DOMAIN incomplete_samples /\ InSeq(t, incomplete_samples[s])

\* some discovered file of category t has base name s + suffix
HasFile(s, t) == \E i \in DOMAIN results[t] : basename(results[t][i]) = s \o Suffix(t)

\* the name with one trailing occurrence of the suffix removed
strip_suffix(b, suffix) == IF EndsWith(b, suffix) THEN SubSeq(b, 1, Len(b) - Len(suffix)) ELSE b

\* C1: every derived sample S is reported with category C listed exactly when
\* no discovered file of C has base name S + suffix(C)
C1_ReportIffNoFile ==
  Reported => \A s \in all_samples, t \in FileTypes : ReportedMissing(s, t) <=> ~HasFile(s, t)

\* C5: the sample names of the consistency check are the base names with the
\* one trailing occurrence of the category's suffix removed
C5_SampleIsStripSuffix ==
  Checked => all_samples = UNION {{strip_suffix(basename(results[t][i]), Suffix(t)) :
                                     i \in DOMAIN results[t]} : t \in FileTypes}

\* C10: a sample derived from a file of category C is never reported as
\* missing C, so no sample is reported as missing all three categories
C10_DerivedCategoryFound ==
  Reported =>
    /\ \A t \in FileTypes : \A i \in DOMAIN results[t] :
         ~ReportedMissing(sample_of(basename(results[t][i]), t), t)
    /\ \A s \in DOMAIN incomplete_samples : Len(incomplete_samples[s]) < Len(file_types)

\* the mirror has handled every discovered file of this run
MirrorDone == symlink_dir # <<>> /\ pc = "done" /\ Located

\* the last file, in the order of the mirror loop, with the base name of p
LastNamed(p) ==
  LET files == all_files(results)
      k == CHOOSE i \in DOMAIN files :
             /\ basename(files[i]) = basename(p)
             /\ \A j \in DOMAIN files : basename(files[j]) = basename(p) => j <= i
  IN files[k]

\* two discovered files share a base name
Collision ==
  \E i, j \in DOMAIN all_files(results) :
    i # j /\ basename(all_files(results)[i]) = basename(all_files(results)[j])

\* C2 as stated: after the mirror every discovered file p has a link
\* target/basename(p) that points to the absolute path of p
C2_EveryFileLinked ==
  MirrorDone => \A i \in DOMAIN all_files(results) :
    LET p == all_files(results)[i] IN
      /\ lexists(fs, symlink_path_of(p))
      /\ fs[symlink_path_of(p)] = Link(normpath(join(cwd, p)))

\* C2 amended: after the mirror target/basename(p) is a link to the absolute
\* path of the last discovered file with the base name of p, which is p itself
\* when no other discovered file has that base name
C2_LastFileLinked ==
  MirrorDone => \A i \in DOMAIN all_files(results) :
    LET p == all_files(results)[i] IN
      /\ lexists(fs, symlink_path_of(p))
      /\ fs[symlink_path_of(p)] = Link(normpath(join(cwd, LastNamed(p))))

C2_Witness == MirrorDone /\ Collision /\ mirrored = Len(all_files(results))

\* the entry at the destination is one of those the claim names, or none
NamedEntry(p) ==
  lexists(fs, symlink_path_of(p)) => fs[symlink_path_of(p)].kind \in {"file", "link"}

\* C3: whatever regular file or link, live or dangling, lies at the destination
\* of a discovered file, the pass of the mirror loop that the system lets
\* work raises no error and leaves a link to the absolute path of the file
C3_EntryReplaced ==
  [][(pc = "mirror" /\ NamedEntry(all_files(results)[mirrored + 1]) /\ err' # "OSError")
       => LET p == all_files(results)[mirrored + 1] IN
            /\ err' = "none"
            /\ lexists(fs', symlink_path_of(p))
            /\ fs'[symlink_path_of(p)] = Link(normpath(join(cwd, p)))]_vars

\* the first index of line l in lines, 0 when it does not occur
RECURSIVE IndexFrom(_, _, _)
IndexFrom(lines, l, i) ==
  IF i > Len(lines) THEN 0 ELSE IF lines[i] = l THEN i ELSE IndexFrom(lines, l, i + 1)

\* the lines after the header line up to the next blank line
Segment(lines, header) ==
  LET h == IndexFrom(lines, header, 1)
      e == IndexFrom(lines, <<>>, h + 1)
  IN IF h = 0 THEN <<>> ELSE SubSeq(lines, h + 1, IF e = 0 THEN Len(lines) ELSE e - 1)

\* the header line of a category in the combined file
Header(t) == <<"#", " ">> \o Upper(TypeChars(t)) \o <<" ","F","I","L","E","S">>

Text(path) == fs[abspath(path)].data

\* save_results has written its four files in this run
Saved == output_file # <<>> /\ saved = Len(file_types) + 1

\* C4: in the combined file the lines between the header of a category and
\* the next blank line are the lines of that category's own file, which are
\* the category's paths in order; the headers come in the order of the
\* categories
C4_RoundTrip ==
  Saved =>
    LET all == Lines(Text(all_paths_file(output_file))) IN
      /\ \A t \in FileTypes :
           /\ IndexFrom(all, Header(t), 1) > 0
           /\ LET own == Lines(Text(paths_only_file(output_file, t))) IN
                Segment(all, Header(t)) = own /\ own = results[t]
      /\ \A i, j \in DOMAIN file_types :
           i < j => IndexFrom(all, Header(file_types[i]), 1) < IndexFrom(all, Header(file_types[j]), 1)

C4_Witness ==
  /\ Saved
  /\ \E t, u \in FileTypes : t # u /\ Len(results[t]) >= 2 /\ Len(results[u]) >= 1

\* the target directory and the entries directly inside it
InTarget(p) ==
  symlink_dir # <<>> /\ (p = abspath(symlink_dir) \/ p = join(abspath(symlink_dir), basename(p)))

\* two file systems differ in the target directory
TargetDiffers(f, g) ==
  \E p \in DOMAIN f \cup DOMAIN g :
    (p \notin DOMAIN f \/ p \notin DOMAIN g \/ f[p] # g[p]) /\ InTarget(p)

\* C6: the file system is touched only after the three categories are located
\* and the report is produced; the target directory is touched only after the
\* four output files are written when -o is given; a run that failed takes no
\* further step, and one that failed while writing the output files has left
\* the target directory as it was
C6_FixedOrder ==
  [][/\ (fs' # fs \/ saved' > saved) => (Located /\ Reported)
     /\ TargetDiffers(fs, fs') => (output_file # <<>> => Saved)
     /\ pc # "failed"
     /\ (pc' = "failed" /\ output_file # <<>> /\ ~Saved') => ~TargetDiffers(fs0', fs')
    ]_vars

C6_Witness ==
  /\ pc = "failed" /\ output_file # <<>> /\ symlink_dir # <<>>
  /\ saved \in 1..Len(file_types)
  /\ all_files(results) # <<>>

\* C7: every located path lies below the search directory, its base name ends
\* in the suffix of its category, each list is in ascending order, and a later
\* run on the same tree returns the lists of the run before
C7_LocatorResult ==
  \A t \in DOMAIN results :
    /\ \A i \in DOMAIN results[t] :
         /\ StartsWith(results[t][i], search_directory \o <<"/">>)
         /\ EndsWith(basename(results[t][i]), Suffix(t))
    /\ \A i, j \in DOMAIN results[t] : i < j => StrLess(results[t][i], results[t][j])
    /\ run > 1 => results[t] = prev_results[t]

C7_Witness == run > 1 /\ Located /\ \E t \in FileTypes : Len(results[t]) >= 2

\* the search directory does not exist
RootMissing == ~exists(fs0, search_directory)

\* C8: with a search directory that does not exist every list, the set of
\* samples and the report are empty, nothing fails before the output is
\* written, the per-category files hold no line and the combined file holds
\* the header and separator lines only
C8_MissingRoot ==
  RootMissing =>
    /\ \A t \in DOMAIN results : results[t] = <<>>
    /\ all_samples = {} /\ DOMAIN incomplete_samples = {}
    /\ pc = "failed" => (Located /\ (output_file # <<>> \/ symlink_dir # <<>>))
    /\ (Reported /\ output_file # <<>> /\ saved = 0) => pc \in {"save", "failed"}
    /\ output_file # <<>> =>
         \A i \in DOMAIN file_types :
           i <= saved => Lines(Text(paths_only_file(output_file, file_types[i]))) = <<>>
    /\ Saved =>
         Lines(Text(all_paths_file(output_file))) =
           << <<"#"," ","A","l","l"," ","c","o","n","t","a","m","i","n","a","t","i","o","n"," ","f","i","l","e","s">>,
              Header(file_types[1]), <<>>, Header(file_types[2]), <<>>, Header(file_types[3]), <<>> >>

C8_Witness ==
  /\ RootMissing /\ Saved
  /\ \E p \in DOMAIN fs : fs[p].kind = "file" /\ EndsWith(p, Suffix("segments"))

\* the paths whose entry differs between two file systems
Changed(f, g) ==
  {p \in DOMAIN f \cup DOMAIN g : p \notin DOMAIN f \/ p \notin DOMAIN g \/ f[p] # g[p]}

OutputFiles ==
  {abspath(paths_only_file(output_file, t)) : t \in FileTypes}
    \cup {abspath(all_paths_file(output_file))}

====
